---- MODULE Spec2Model ----
(***************************************************************************)
(* The Kenwood VH "SYSTEM CONTROL" protocol decoder                        *)
(* (decoders/kenwood_vh/pd.py, class Decoder) as a state machine.          *)
(*                                                                         *)
(* The decoder's fields are the variables of the same name.  The logic     *)
(* channel is the environment: pos is the sample number of the latest      *)
(* edge of the DATA line and pin the level of the line after that edge, so *)
(* edges alternate in polarity and their sample numbers strictly increase. *)
(* One action is one return (or one skipped edge) of self.wait().          *)
(***************************************************************************)
EXTENDS Integers, Sequences, FiniteSets

VARIABLES
    pc,            \* "idle" (constructed), "running" (inside decode), "failed" (decode
                   \* raised), "eof" (the stream ended), "word" (at the word test)
    err,           \* the exception decode() raised, "" if none
    sample_usec,   \* self.sample_usec: NoSampleUsec (None) or a double
    content,       \* self.content
    lastRising,    \* self.lastRising
    lastFalling,   \* self.lastFalling
    commandStart,  \* self.commandStart
    wordStart,     \* self.wordStart
    num_bits,      \* self.num_bits
    state,         \* self.state
    pos,           \* sample number of the latest edge of the line, -1 before the first
    pin,           \* level of the line after that edge
    out,           \* the annotations put() by the latest step, in order
    classified,    \* history: the bits classified since the latest RESET detection
    seenRising,    \* history: sample number of the latest rising edge of the line
    seenFalling,   \* history: sample number of the latest falling edge of the line
    emitted,       \* history: the kinds of all annotations put so far, in order
    spans          \* history of the Bit-class spans, kept under SpecSpans only:
                   \* <<>> when not kept, else <<e>> or <<e, lo, hi>> with e the end
                   \* of the latest Bit-class annotation (-1 if none) and lo, hi the
                   \* least start and greatest end of the bit annotations put
                   \* since the latest RESET annotation

fields == <<content, lastRising, lastFalling, commandStart, wordStart, num_bits, state>>
vars == <<pc, err, sample_usec, content, lastRising, lastFalling, commandStart,
          wordStart, num_bits, state, pos, pin, out, classified, seenRising,
          seenFalling, emitted, spans>>

(***************************************************************************)
(* Bounds of the model.                                                    *)
(***************************************************************************)
\* Largest sample number of an edge.
MaxSample == 40
\* Longest time, in microseconds, the line stays at one level: the protocol's
\* longest phase (the 5 ms RESET, the 5 ms LOW of a 1 bit).
MaxPhaseUsec == 5000
\* Sample rates (Hz) the host may announce: sample periods of 1600.0 and
\* 1000.0 microseconds.
SampleRates == {625, 1000}

(***************************************************************************)
(* Program constants.                                                      *)
(***************************************************************************)
\* self.sample_usec = None.  None is no double: it has the shape of one,
\* for the comparison with the doubles, and a sign no double has.
NoSampleUsec == [s |-> 2, m |-> <<>>, e |-> 0]

\* Annotation classes, the indices into Decoder.annotations.
AnnBit == 0
AnnWord == 1
AnnCommand == 2

(***************************************************************************)
(* put(ss, es, out_ann, [cls, [text]]).  A text is a sequence of strings;  *)
(* the word's text is the sequence of the characters of the formatted      *)
(* string, the other texts are one string.                                 *)
(***************************************************************************)
put(ss, es, cls, text) == [ss |-> ss, es |-> es, cls |-> cls, text |-> text]

(***************************************************************************)
(* format(content, '#06x'): "0x", then the lowercase hexadecimal digits,   *)
(* zero-padded so that the whole string is at least 6 characters wide.     *)
(***************************************************************************)
HexDigit == <<"0", "1", "2", "3", "4", "5", "6", "7",
              "8", "9", "a", "b", "c", "d", "e", "f">>

RECURSIVE Hex(_)
Hex(v) == IF v < 16 THEN <<HexDigit[v + 1]>>
          ELSE Hex(v \div 16) \o <<HexDigit[(v % 16) + 1]>>

RECURSIVE ZeroPad(_, _)
ZeroPad(s, width) == IF Len(s) >= width THEN s ELSE ZeroPad(<<"0">> \o s, width)

\* Variant of Format06x: format(content, '#x'), no zero padding.
Format06x_NoPad(v) == <<"0", "x">> \o Hex(v)

Format06x(v) == <<"0", "x">> \o ZeroPad(Hex(v), 4)

(***************************************************************************)
(* contentToDescription: the dict literal in source order.  A dict literal *)
(* with a repeated key keeps the value written last.                       *)
(***************************************************************************)
CommandTable == <<
    <<\h1000, "System ON">>,
    <<\h1080, "System OFF">>,
    <<\h8044, "Source: CD">>,
    <<\h8045, "CD ON">>,
    <<\h8084, "Source: FM">>,
    <<\h8085, "FM ON">>,
    <<\h80a4, "Source: Tape">>,
    <<\h80a5, "Tape ON">>,
    <<\h80b4, "Source: MD">>,
    <<\h80b5, "MD ON">>,
    <<\h80c4, "Source: AUX">>,
    <<\h80c5, "AUX ON">>,
    <<\h0898, "ON3">>,
    <<\h857b, "Seek Rev">>,
    <<\h85fb, "Seek Fwd">>,
    <<\h04c9, "Tape: ACK?">>,
    <<\h051b, "Tape Rev">>,
    <<\h059b, "Tape Fwd">>,
    <<\h05bb, "Tape Stop">>,
    <<\h851b, "MD Play/Pause">>,
    <<\h859b, "MD Stop">>,
    <<\h8045, "CD Play/Pause">>,
    <<\h8044, "CD Stop">>,
    <<\h4590, "Tape OTE">>,
    <<\h0503, "MD OTE">>,
    <<\h0581, "Num 1 down">>,
    <<\h0541, "Num 2 down">>,
    <<\h05c1, "Num 3 down">>,
    <<\h0521, "Num 4 down">>,
    <<\h05a1, "Num 5 down">>,
    <<\h0561, "Num 6 down">>,
    <<\h05e1, "Num 7 down">>,
    <<\h0511, "Num 8 down">>,
    <<\h0591, "Num 9 down">>,
    <<\h05b0, "Num +10 down">>,
    <<\h0501, "Num 0 down">>,
    <<\h45f2, "Num +100 down">>,
    <<\h8078, "Button up">> >>

\* Variant of contentToDescription: of a repeated key the value written
\* first is kept.
contentToDescription_FirstWins(c) ==
    LET hits == {i \in 1..Len(CommandTable) : CommandTable[i][1] = c}
        first == CHOOSE i \in hits : \A j \in hits : i <= j
    IN  IF hits = {} THEN "????" ELSE CommandTable[first][2]

contentToDescription(c) ==
    LET hits == {i \in 1..Len(CommandTable) : CommandTable[i][1] = c}
        last == CHOOSE i \in hits : \A j \in hits : j <= i
    IN  IF hits = {} THEN "????" ELSE CommandTable[last][2]

(***************************************************************************)
(* Python floats.  self.sample_usec and the times computed from it are     *)
(* IEEE 754 doubles.  A double is modelled exactly, as the record          *)
(* [s, m, e] of the value s * m * 2^e: s is the sign (-1, 0 or 1), m the   *)
(* odd mantissa, of at most 53 bits, and 0.0 is [s |-> 0, m |-> <<>>,      *)
(* e |-> 0].  The mantissa is a natural number written as the sequence of  *)
(* its digits in base 2^15, least significant first and without leading    *)
(* zeros, so that no product of the arithmetic leaves the 32-bit integers  *)
(* of TLC.  Every operation rounds to nearest, ties to even, as the        *)
(* machine does.                                                           *)
(***************************************************************************)
Limb == 2 ^ 15

\* The natural number n as a sequence of digits.
RECURSIVE BigOfInt(_)
BigOfInt(n) == IF n = 0 THEN <<>> ELSE <<n % Limb>> \o BigOfInt(n \div Limb)

\* a without leading zero digits.
RECURSIVE BigNorm(_)
BigNorm(a) ==
    IF a = <<>> THEN <<>>
    ELSE IF a[Len(a)] = 0 THEN BigNorm(SubSeq(a, 1, Len(a) - 1))
    ELSE a

\* a * k + carry, for a digit k and a carry below Limb.
RECURSIVE BigMulSmall(_, _, _)
BigMulSmall(a, k, carry) ==
    IF a = <<>> THEN BigOfInt(carry)
    ELSE LET t == (a[1] * k) + carry
         IN  <<t % Limb>> \o BigMulSmall(Tail(a), k, t \div Limb)

\* a + b + carry.
RECURSIVE BigAdd(_, _, _)
BigAdd(a, b, carry) ==
    IF a = <<>> /\ b = <<>> THEN BigOfInt(carry)
    ELSE LET x == IF a = <<>> THEN 0 ELSE a[1]
             y == IF b = <<>> THEN 0 ELSE b[1]
             t == x + y + carry
         IN  <<t % Limb>> \o BigAdd(IF a = <<>> THEN <<>> ELSE Tail(a),
                                    IF b = <<>> THEN <<>> ELSE Tail(b), t \div Limb)

\* a * b.
RECURSIVE BigMul(_, _)
BigMul(a, b) ==
    IF a = <<>> \/ b = <<>> THEN <<>>
    ELSE BigNorm(BigAdd(BigMulSmall(a, b[1], 0), <<0>> \o BigMul(a, Tail(b)), 0))

\* -1, 0 or 1 as a is less than, equal to or greater than b.
RECURSIVE BigCmpFrom(_, _, _)
BigCmpFrom(a, b, i) ==
    IF i = 0 THEN 0
    ELSE IF a[i] < b[i] THEN -1
    ELSE IF a[i] > b[i] THEN 1
    ELSE BigCmpFrom(a, b, i - 1)

BigCmp(a, b) ==
    IF Len(a) < Len(b) THEN -1
    ELSE IF Len(a) > Len(b) THEN 1
    ELSE BigCmpFrom(a, b, Len(a))

\* The number of bits of the natural number n, and of a.
RECURSIVE BitLen(_)
BitLen(n) ==
    IF n >= 16 THEN 4 + BitLen(n \div 16)
    ELSE IF n >= 8 THEN 4 ELSE IF n >= 4 THEN 3 ELSE IF n >= 2 THEN 2 ELSE n

BigBitLen(a) == IF a = <<>> THEN 0 ELSE (15 * (Len(a) - 1)) + BitLen(a[Len(a)])

\* Bit i of a, bit 0 the least significant.
BigBit(a, i) ==
    IF (i \div 15) + 1 > Len(a) THEN 0
    ELSE (a[(i \div 15) + 1] \div (2 ^ (i % 15))) % 2

\* a * 2^k and the integer part of a / 2^k.
BigShl(a, k) ==
    IF a = <<>> THEN <<>>
    ELSE [i \in 1..(k \div 15) |-> 0] \o BigMulSmall(a, 2 ^ (k % 15), 0)

BigShr(a, k) ==
    LET d == k \div 15
        b == k % 15
        n == Len(a) - d
    IN  IF n <= 0 THEN <<>>
        ELSE BigNorm([i \in 1..n |->
                 (a[i + d] \div (2 ^ b))
                 + (IF i + d < Len(a) THEN (a[i + d + 1] % (2 ^ b)) * (2 ^ (15 - b))
                    ELSE 0)])

\* a / 2^k rounded to the nearest integer, a tie to the even one (k >= 1).
BigShrRne(a, k) ==
    LET q == BigShr(a, k)
        half == BigBit(a, k - 1) = 1
        sticky == \E i \in 0..(k - 2) : BigBit(a, i) = 1
        odd == BigBit(a, k) = 1
    IN  IF half /\ (sticky \/ odd) THEN BigAdd(q, <<1>>, 0) ELSE q

\* The number of zero bits at the low end of a, a not 0: whole zero digits
\* first, then the zero bits of the first digit that is not 0.
RECURSIVE LowZeros(_)
LowZeros(n) ==
    IF n % 16 = 0 THEN 4 + LowZeros(n \div 16)
    ELSE IF n % 2 = 1 THEN 0 ELSE IF n % 4 = 2 THEN 1 ELSE IF n % 8 = 4 THEN 2 ELSE 3

RECURSIVE BigTrailingZeros(_)
BigTrailingZeros(a) ==
    IF a[1] = 0 THEN 15 + BigTrailingZeros(Tail(a)) ELSE LowZeros(a[1])

\* 0.0
FloatZero == [s |-> 0, m |-> <<>>, e |-> 0]

\* The double nearest to s * p * 2^e.
FloatRound(s, p, e) ==
    IF s = 0 \/ p = <<>> THEN FloatZero
    ELSE LET len == BigBitLen(p)
             cut == IF len > 53 THEN len - 53 ELSE 0
             r == IF cut > 0 THEN BigShrRne(p, cut) ELSE p
             z == BigTrailingZeros(r)
         IN  [s |-> s, m |-> BigShr(r, z), e |-> e + cut + z]

\* float(n) of an int n.
FloatOfInt(n) ==
    FloatRound(IF n > 0 THEN 1 ELSE IF n < 0 THEN -1 ELSE 0,
               BigOfInt(IF n < 0 THEN -n ELSE n), 0)

\* x * y
FloatMul(x, y) == FloatRound(x.s * y.s, BigMul(x.m, y.m), x.e + y.e)

\* Long division: the n next bits of the quotient of r / value, r < value,
\* as <<quotient, remainder>>; the steps are halved to keep the nesting low.
RECURSIVE DivBits(_, _, _)
DivBits(r, n, value) ==
    IF n = 1
    THEN LET bit == IF 2 * r >= value THEN 1 ELSE 0
         IN  <<BigOfInt(bit), (2 * r) - (bit * value)>>
    ELSE LET hi == DivBits(r, n \div 2, value)
             lo == DivBits(hi[2], n - (n \div 2), value)
         IN  <<BigAdd(BigShl(hi[1], n - (n \div 2)), lo[1], 0), lo[2]>>

\* 1 / value of an int value, 0 < value < 2^30: the quotient to 56 bits and
\* one more bit that tells whether the division left a remainder, rounded.
FloatRecip(value) ==
    LET len == BitLen(value)
        d == DivBits(1, len + 54, value)
    IN  FloatRound(1, BigMulSmall(d[1], 2, IF d[2] = 0 THEN 0 ELSE 1), 0 - (len + 55))

\* -1, 0 or 1 as the magnitude of the non-zero double x is less than, equal
\* to or greater than that of the non-zero double y.
FloatCmpAbs(x, y) ==
    LET tx == BigBitLen(x.m) + x.e
        ty == BigBitLen(y.m) + y.e
    IN  IF tx < ty THEN -1
        ELSE IF tx > ty THEN 1
        ELSE IF x.e >= y.e THEN BigCmp(BigShl(x.m, x.e - y.e), y.m)
        ELSE BigCmp(x.m, BigShl(y.m, y.e - x.e))

FloatCmp(x, y) ==
    IF x.s # y.s THEN (IF x.s < y.s THEN -1 ELSE 1)
    ELSE IF x.s = 0 THEN 0
    ELSE x.s * FloatCmpAbs(x, y)

\* A positive double of one digit and an exponent from 0 to 15 is a whole
\* number below 2^30; SmallWhole is that number.
IsSmallWhole(x) == x.s = 1 /\ x.e >= 0 /\ x.e <= 15 /\ Len(x.m) = 1
SmallWhole(x) == x.m[1] * (2 ^ x.e)

\* -1, 0 or 1 as the double x is less than, equal to or greater than the
\* int k: Python compares the two by their exact values.  A small whole
\* number is compared as the number it is.
FloatCmpInt(x, k) ==
    IF IsSmallWhole(x)
    THEN (IF SmallWhole(x) < k THEN -1 ELSE IF SmallWhole(x) > k THEN 1 ELSE 0)
    ELSE FloatCmp(x, FloatOfInt(k))

\* x > k, x < k, x >= k and x <= k of a double x and an int k.
FloatGt(x, k) == FloatCmpInt(x, k) = 1
FloatLt(x, k) == FloatCmpInt(x, k) = -1
FloatGe(x, k) == FloatCmpInt(x, k) >= 0
FloatLe(x, k) == FloatCmpInt(x, k) <= 0

(***************************************************************************)
(* metadata(): self.sample_usec = 1 / value * 1000000, for an int value,   *)
(* 0 < value < 2^30: the quotient 1 / value rounded to a double, then its  *)
(* product with 1000000 rounded to a double.                               *)
(***************************************************************************)
SampleUsecOf(value) == FloatMul(FloatRecip(value), FloatOfInt(1000000))

(***************************************************************************)
(* The timing tests and the arithmetic of decode().                        *)
(***************************************************************************)
\* n * u: an int times a double, a double.  The product of a natural number
\* and a small whole number, when below 2^30, is exact: it is the double of
\* the product of the two numbers.
Times(n, u) ==
    IF IsSmallWhole(u) /\ n >= 0 /\ n <= (2 ^ 30) \div SmallWhole(u)
    THEN FloatOfInt(n * SmallWhole(u))
    ELSE FloatMul(FloatOfInt(n), u)

\* (to - from) * self.sample_usec
Duration(from, to) == Times(to - from, sample_usec)

\* Variant of IsReset: the threshold taken from the nominal 5 ms RESET.
IsReset_5ms(timeHigh) == FloatGt(timeHigh, 5000)

\* Variant of IsReset: a high phase of exactly 4000 microseconds taken as a RESET.
IsReset_Inclusive(timeHigh) == FloatGe(timeHigh, 4000)

\* timeHigh > 4000
IsReset(timeHigh) == FloatGt(timeHigh, 4000)

\* Variant of IsZero: the limits of the band taken as part of the band.
IsZero_Inclusive(timeLow) == FloatGe(timeLow, 3000) /\ FloatLe(timeLow, 5000)

\* timeLow > 3000 and timeLow < 5000
IsZero(timeLow) == FloatGt(timeLow, 3000) /\ FloatLt(timeLow, 5000)

\* Variant of IsOne: the lower limit of the band one millisecond too high.
IsOne_WrongBand(timeLow) == FloatGt(timeLow, 7000) /\ FloatLt(timeLow, 8000)

\* timeLow > 6000 and timeLow < 8000 (the elif: tried when IsZero fails)
IsOne(timeLow) == FloatGt(timeLow, 6000) /\ FloatLt(timeLow, 8000)

\* Variant of ShiftIn: the new bit placed above the bits already read.
ShiftIn_LsbFirst(c, bit) == c + (bit * (2 ^ num_bits))

\* (self.content << 1) and (self.content << 1) + 1
ShiftIn(c, bit) == (c * 2) + bit

\* Variant of WordDone: the word taken as complete after one byte.
WordDone_Byte(n) == n = 8

\* Variant of WordDone: the word taken as complete one bit early.
WordDone_OffByOne(n) == n = 15

\* self.num_bits == 16
WordDone(n) == n = 16

\* Variant of ResetAnn: start and end sample exchanged.
ResetAnn_Swapped(rising, falling) == put(falling, rising, AnnBit, <<"RESET">>)

\* self.put(self.lastRising, self.lastFalling, self.out_ann, [0, ['RESET']])
ResetAnn(rising, falling) == put(rising, falling, AnnBit, <<"RESET">>)

\* Variant of BitAnn: every bit annotation begins where the frame's word begins.
BitAnn_FromWordStart(from, to, bit) ==
    put(wordStart, to, AnnBit, <<IF bit = 0 THEN "0" ELSE "1">>)

\* self.put(self.lastFalling, self.samplenum, self.out_ann, [0, ['0']]) / [0, ['1']]
BitAnn(from, to, bit) == put(from, to, AnnBit, <<IF bit = 0 THEN "0" ELSE "1">>)

\* self.put(self.wordStart, self.lastFalling, self.out_ann, [1, [format(self.content, '#06x')]])
WordAnn(from, to, c) == put(from, to, AnnWord, Format06x(c))

\* self.put(self.commandStart, self.lastFalling, self.out_ann,
\*          [2, [self.contentToDescription(self.content)]])
CommandAnn(from, to, c) == put(from, to, AnnCommand, <<contentToDescription(c)>>)

(***************************************************************************)
(* History of the output: what kind of annotation each put() gave.         *)
(***************************************************************************)
KindOf(a) ==
    IF a.cls = AnnBit /\ a.text = <<"RESET">> THEN "RESET"
    ELSE IF a.cls = AnnBit /\ a.text \in {<<"0">>, <<"1">>} THEN "bit"
    ELSE IF a.cls = AnnWord THEN "Word"
    ELSE IF a.cls = AnnCommand THEN "Command"
    ELSE "other"

KindsOf(anns) == [i \in 1..Len(anns) |-> KindOf(anns[i])]

\* The least and the greatest of two sample numbers.
Min(a, b) == IF a < b THEN a ELSE b
Max(a, b) == IF a > b THEN a ELSE b

\* The history of spans h after the annotations anns: a RESET begins a frame,
\* a bit widens the span of the frame's bits.
RECURSIVE SpansAfter(_, _)
SpansAfter(anns, h) ==
    IF anns = <<>> THEN h
    ELSE LET a == Head(anns)
             k == KindOf(a)
             h1 == IF k = "RESET" THEN <<a.es>>
                   ELSE IF k = "bit"
                        THEN IF Len(h) = 1 THEN <<a.es, a.ss, a.es>>
                             ELSE <<a.es, Min(h[2], a.ss), Max(h[3], a.es)>>
                   ELSE h
         IN  SpansAfter(Tail(anns), h1)

\* The annotations the step puts are added to the history.
Record ==
    /\ emitted' = emitted \o KindsOf(out')
    /\ spans' = IF spans = <<>> THEN <<>> ELSE SpansAfter(out', spans)

(***************************************************************************)
(* __init__() / reset(): the state after construction.                     *)
(***************************************************************************)
Constructed ==
    /\ pc = "idle"
    /\ err = ""
    /\ content = 0
    /\ sample_usec = NoSampleUsec
    /\ lastRising = -1
    /\ lastFalling = -1
    /\ commandStart = -1
    /\ wordStart = -1
    /\ num_bits = 0
    /\ state = "FIND RESET"
    /\ pos = -1
    /\ pin \in {0, 1}
    /\ out = <<>>
    /\ classified = <<>>
    /\ seenRising = -1
    /\ seenFalling = -1
    /\ emitted = <<>>

Init == Constructed /\ spans = <<>>

\* reset(), called again by the host before decoding starts.
Reset ==
    /\ pc = "idle"
    /\ content' = 0
    /\ sample_usec' = NoSampleUsec
    /\ lastRising' = -1
    /\ lastFalling' = -1
    /\ commandStart' = -1
    /\ wordStart' = -1
    /\ num_bits' = 0
    /\ state' = "FIND RESET"
    /\ UNCHANGED <<pc, err, pos, pin, out, classified, seenRising, seenFalling, emitted, spans>>

\* metadata(key, value); only SRD_CONF_SAMPLERATE is acted on.
Metadata(key, value) ==
    /\ pc = "idle"
    /\ sample_usec' = IF key = "SRD_CONF_SAMPLERATE" THEN SampleUsecOf(value)
                      ELSE sample_usec
    /\ UNCHANGED <<pc, err, fields, pos, pin, out, classified, seenRising, seenFalling, emitted, spans>>

\* "if not self.sample_usec": None and 0.0 are the values that are not true.
NoSamplerate == sample_usec = NoSampleUsec \/ sample_usec = FloatZero

\* decode() up to the loop.  The module binds no name SamplerateError (it
\* imports only sigrokdecode as srd), so evaluating the raise statement's
\* expression raises NameError.
DecodeEnter ==
    /\ pc = "idle"
    /\ IF NoSamplerate
       THEN pc' = "failed" /\ err' = "NameError"
       ELSE pc' = "running" /\ err' = err
    /\ UNCHANGED <<sample_usec, fields, pos, pin, out, classified, seenRising, seenFalling, emitted, spans>>

(***************************************************************************)
(* The longest phase of the line, in samples: the largest n up to          *)
(* MaxSample + 1 with n * u <= MaxPhaseUsec for the sample period u, found *)
(* by bisection between lo, which satisfies it, and hi.  For a small whole *)
(* number u of microseconds it is a quotient.                              *)
(***************************************************************************)
RECURSIVE LongestPhase(_, _, _)
LongestPhase(lo, hi, u) ==
    IF lo >= hi THEN lo
    ELSE LET mid == (lo + hi + 1) \div 2
         IN  IF FloatLe(Times(mid, u), MaxPhaseUsec)
             THEN LongestPhase(mid, hi, u)
             ELSE LongestPhase(lo, mid - 1, u)

MaxPhaseSamples ==
    IF IsSmallWhole(sample_usec)
    THEN Min(MaxSample + 1, MaxPhaseUsec \div SmallWhole(sample_usec))
    ELSE LongestPhase(0, MaxSample + 1, sample_usec)

(***************************************************************************)
(* The line: the next edge is at sample p, and it is falling when the line *)
(* is high and rising when it is low.                                      *)
(***************************************************************************)
Edge(p, level) ==
    /\ pc = "running"
    /\ pin = level
    /\ p > pos
    /\ p - pos <= MaxPhaseSamples
    /\ p <= MaxSample
    /\ pos' = p
    /\ pin' = 1 - pin
    /\ seenRising' = IF level = 0 THEN p ELSE seenRising
    /\ seenFalling' = IF level = 1 THEN p ELSE seenFalling

\* Variant of StartFrame: the accumulator and the bit count are not cleared.
StartFrame_KeepBits(p) ==
    /\ commandStart' = lastRising
    /\ wordStart' = p
    /\ state' = "BITS"
    /\ UNCHANGED <<content, num_bits>>

\* The assignments of a RESET detection at the falling edge p.
StartFrame(p) ==
    /\ commandStart' = lastRising
    /\ wordStart' = p
    /\ state' = "BITS"
    /\ content' = 0
    /\ num_bits' = 0

\* state 'FIND RESET', wait([{0: 'f'}, {0: 'r'}]) matched (True, False)
FindResetFalling(p) ==
    /\ state = "FIND RESET"
    /\ Edge(p, 1)
    /\ lastFalling' = p
    /\ IF IsReset(Duration(lastRising, p))
       THEN /\ out' = <<ResetAnn(lastRising, p)>>
            /\ StartFrame(p)
            /\ classified' = <<>>
       ELSE /\ out' = <<>>
            /\ UNCHANGED <<commandStart, wordStart, state, content, num_bits, classified>>
    /\ UNCHANGED <<pc, err, sample_usec, lastRising>>
    /\ Record

\* Variant of FindResetRising: the rising edge is not remembered.
FindResetRising_Forget(p) ==
    /\ state = "FIND RESET"
    /\ Edge(p, 0)
    /\ out' = <<>>
    /\ UNCHANGED <<pc, err, sample_usec, fields, classified>>
    /\ Record

\* state 'FIND RESET', wait([{0: 'f'}, {0: 'r'}]) matched (False, True)
FindResetRising(p) ==
    /\ state = "FIND RESET"
    /\ Edge(p, 0)
    /\ lastRising' = p
    /\ out' = <<>>
    /\ UNCHANGED <<pc, err, sample_usec, content, lastFalling, commandStart,
                   wordStart, num_bits, state, classified>>
    /\ Record

\* Variant of BitsFalling: an interval in neither band gives the frame up and
\* the decoder looks for the next RESET.
BitsFalling_ResyncOnNoise(p) ==
    /\ state = "BITS"
    /\ Edge(p, 1)
    /\ \E timeLow \in {Duration(lastFalling, p)} :
       \E bits \in {IF IsZero(timeLow) THEN <<0>>
                    ELSE IF IsOne(timeLow) THEN <<1>>
                    ELSE <<>>} :
       LET c == IF bits = <<>> THEN content ELSE ShiftIn(content, bits[1])
           n == num_bits + Len(bits)
           bitAnns == IF bits = <<>> THEN <<>> ELSE <<BitAnn(lastFalling, p, bits[1])>>
       IN  /\ content' = c
           /\ num_bits' = n
           /\ classified' = classified \o bits
           /\ lastFalling' = p
           /\ IF WordDone(n)
              THEN /\ out' = bitAnns \o <<WordAnn(wordStart, p, c), CommandAnn(commandStart, p, c)>>
                   /\ state' = "FIND RESET"
              ELSE /\ out' = bitAnns
                   /\ state' = IF bits = <<>> THEN "FIND RESET" ELSE state
    /\ UNCHANGED <<pc, err, sample_usec, lastRising, commandStart, wordStart>>
    /\ Record

\* Variant of BitsFalling: the accumulator and the bit count are cleared when
\* the word has been put.
BitsFalling_ClearOnWord(p) ==
    /\ state = "BITS"
    /\ Edge(p, 1)
    /\ \E timeLow \in {Duration(lastFalling, p)} :
       \E bits \in {IF IsZero(timeLow) THEN <<0>>
                    ELSE IF IsOne(timeLow) THEN <<1>>
                    ELSE <<>>} :
       LET c == IF bits = <<>> THEN content ELSE ShiftIn(content, bits[1])
           n == num_bits + Len(bits)
           bitAnns == IF bits = <<>> THEN <<>> ELSE <<BitAnn(lastFalling, p, bits[1])>>
       IN  /\ classified' = classified \o bits
           /\ lastFalling' = p
           /\ IF WordDone(n)
              THEN /\ out' = bitAnns \o <<WordAnn(wordStart, p, c), CommandAnn(commandStart, p, c)>>
                   /\ state' = "FIND RESET"
                   /\ content' = 0
                   /\ num_bits' = 0
              ELSE /\ out' = bitAnns
                   /\ state' = state
                   /\ content' = c
                   /\ num_bits' = n
    /\ UNCHANGED <<pc, err, sample_usec, lastRising, commandStart, wordStart>>
    /\ Record

\* state 'BITS', wait([{0: 'f'}]) returned at the falling edge p
BitsFalling(p) ==
    /\ state = "BITS"
    /\ Edge(p, 1)
    /\ \E timeLow \in {Duration(lastFalling, p)} :
       \E bits \in {IF IsZero(timeLow) THEN <<0>>
                    ELSE IF IsOne(timeLow) THEN <<1>>
                    ELSE <<>>} :
       LET c == IF bits = <<>> THEN content ELSE ShiftIn(content, bits[1])
           n == num_bits + Len(bits)
           bitAnns == IF bits = <<>> THEN <<>> ELSE <<BitAnn(lastFalling, p, bits[1])>>
       IN  /\ content' = c
           /\ num_bits' = n
           /\ classified' = classified \o bits
           /\ lastFalling' = p
           /\ IF WordDone(n)
              THEN /\ out' = bitAnns \o <<WordAnn(wordStart, p, c), CommandAnn(commandStart, p, c)>>
                   /\ state' = "FIND RESET"
              ELSE /\ out' = bitAnns
                   /\ state' = state
    /\ UNCHANGED <<pc, err, sample_usec, lastRising, commandStart, wordStart>>
    /\ Record

\* Variant of BitsRising: the rising edge is consumed and remembered.
BitsRising_Remember(p) ==
    /\ state = "BITS"
    /\ Edge(p, 0)
    /\ lastRising' = p
    /\ out' = <<>>
    /\ UNCHANGED <<pc, err, sample_usec, content, lastFalling, commandStart,
                   wordStart, num_bits, state, classified>>
    /\ Record

\* state 'BITS', a rising edge of the line: wait([{0: 'f'}]) does not return
\* on it, the decoder stays suspended.
BitsRising(p) ==
    /\ state = "BITS"
    /\ Edge(p, 0)
    /\ out' = <<>>
    /\ UNCHANGED <<pc, err, sample_usec, fields, classified>>
    /\ Record

\* The sample numbers at which Edge lets the next edge be.
NextSamples ==
    IF pc = "running" THEN (pos + 1)..Min(MaxSample, pos + MaxPhaseSamples) ELSE {}

Next ==
    \/ Reset
    \/ \E key \in {"SRD_CONF_SAMPLERATE", "SRD_CONF_OTHER"}, value \in SampleRates :
           Metadata(key, value)
    \/ DecodeEnter
    \/ \E p \in NextSamples : FindResetFalling(p)
    \/ \E p \in NextSamples : FindResetRising(p)
    \/ \E p \in NextSamples : BitsFalling(p)
    \/ \E p \in NextSamples : BitsRising(p)

Spec == Init /\ [][Next]_vars

(***************************************************************************)
(* The end of the sample stream.  decode() has no statement after its loop *)
(* and no exception handler, so when wait() finds no further sample no     *)
(* statement of the decoder runs any more: nothing is put and no field is  *)
(* assigned.  How the host ends the suspended wait() is the library's part *)
(* (type_decoder.c), taken here as a clean end.                            *)
(***************************************************************************)
\* What the host reports when the stream ends inside wait(): no error.
EndOfStreamError == ""

\* Variant of EndOfStream: the unfinished word is put when the stream ends.
EndOfStream_Flush ==
    /\ pc = "running"
    /\ pc' = "eof"
    /\ err' = EndOfStreamError
    /\ out' = IF state = "BITS"
              THEN <<WordAnn(wordStart, lastFalling, content),
                     CommandAnn(commandStart, lastFalling, content)>>
              ELSE <<>>
    /\ Record
    /\ UNCHANGED <<sample_usec, fields, pos, pin, classified, seenRising, seenFalling>>

\* wait() does not return: the stream has ended.
EndOfStream ==
    /\ pc = "running"
    /\ pc' = "eof"
    /\ err' = EndOfStreamError
    /\ out' = <<>>
    /\ Record
    /\ UNCHANGED <<sample_usec, fields, pos, pin, classified, seenRising, seenFalling>>

NextEof == Next \/ EndOfStream

SpecEof == Init /\ [][NextEof]_vars

(***************************************************************************)
(* The decoder with the history of the Bit-class spans kept.               *)
(***************************************************************************)
InitSpans == Constructed /\ spans = <<-1>>

SpecSpans == InitSpans /\ [][Next]_vars

(***************************************************************************)
(* The end of a frame alone, for every 16-bit word.  SpecWord starts where *)
(* decode() stands at "if (self.num_bits == 16)" after the 16th bit of a   *)
(* frame at 625 Hz whose RESET rose at sample 0 and fell at sample 3, each *)
(* 0 bit two samples and each 1 bit four samples after the falling edge    *)
(* before it; its one step is the rest of the loop body.                   *)
(***************************************************************************)
\* The 16 bits of the word v, most-significant first, and how many are 1.
BitsOf(v) == [i \in 1..16 |-> (v \div (2 ^ (16 - i))) % 2]

RECURSIVE Ones(_)
Ones(v) == IF v = 0 THEN 0 ELSE (v % 2) + Ones(v \div 2)

WordInit ==
    \E v \in 0..65535 :
        LET last == 3 + (2 * 16) + (2 * Ones(v))
            bit == v % 2
        IN  /\ pc = "word"
            /\ err = ""
            /\ sample_usec = SampleUsecOf(625)
            /\ content = v
            /\ lastRising = 0
            /\ lastFalling = last
            /\ commandStart = 0
            /\ wordStart = 3
            /\ num_bits = 16
            /\ state = "BITS"
            /\ pos = last
            /\ pin = 0
            /\ out = <<BitAnn(last - (2 + (2 * bit)), last, bit)>>
            /\ classified = BitsOf(v)
            /\ seenRising = last - 1
            /\ seenFalling = last
            /\ emitted = <<"RESET">> \o [i \in 1..16 |-> "bit"]
            /\ spans = <<>>

\* "if (self.num_bits == 16):" and its body
EmitWord ==
    /\ pc = "word"
    /\ WordDone(num_bits)
    /\ out' = out \o <<WordAnn(wordStart, lastFalling, content),
                        CommandAnn(commandStart, lastFalling, content)>>
    /\ state' = "FIND RESET"
    /\ pc' = "running"
    /\ emitted' = emitted \o KindsOf(<<WordAnn(wordStart, lastFalling, content),
                                        CommandAnn(commandStart, lastFalling, content)>>)
    /\ UNCHANGED spans
    /\ UNCHANGED <<err, sample_usec, content, lastRising, lastFalling, commandStart,
                   wordStart, num_bits, pos, pin, classified, seenRising, seenFalling>>

SpecWord == WordInit /\ [][EmitWord]_vars

(***************************************************************************)
(* Vocabulary of the properties.                                           *)
(***************************************************************************)
\* The time of n samples, a double of microseconds, and its strict
\* comparisons with a whole number k of microseconds.
Usec(n) == Times(n, sample_usec)
Over(t, k) == FloatCmpInt(t, k) = 1
Under(t, k) == FloatCmpInt(t, k) = -1

\* The step is an edge of the line, falling (the line was high) or rising.
FallingStep == pc = "running" /\ pin = 1 /\ pos' # pos
RisingStep == pc = "running" /\ pin = 0 /\ pos' # pos

\* The annotation a is among those of seq; the number of class cls in seq.
Has(seq, a) == \E i \in 1..Len(seq) : seq[i] = a
CountCls(seq, cls) == Cardinality({i \in 1..Len(seq) : seq[i].cls = cls})

\* The value of a sequence of bits read most-significant bit first.
RECURSIVE MsbFirst(_)
MsbFirst(bits) ==
    IF bits = <<>> THEN 0
    ELSE (2 * MsbFirst(SubSeq(bits, 1, Len(bits) - 1))) + bits[Len(bits)]

\* The value of a text "0x..." read as a hexadecimal number.
DigitValue(ch) == (CHOOSE i \in 1..16 : HexDigit[i] = ch) - 1
RECURSIVE HexValueOf(_)
HexValueOf(digits) ==
    IF digits = <<>> THEN 0
    ELSE (16 * HexValueOf(SubSeq(digits, 1, Len(digits) - 1)))
         + DigitValue(digits[Len(digits)])
HexValue(text) == HexValueOf(SubSeq(text, 3, Len(text)))

\* The fields as reset() leaves them.
FieldsAsConstructed ==
    /\ content = 0
    /\ lastRising = -1
    /\ lastFalling = -1
    /\ commandStart = -1
    /\ wordStart = -1
    /\ num_bits = 0
    /\ state = "FIND RESET"

(***************************************************************************)
(* C1: a Word or a Command annotation is put only by a step at which       *)
(* exactly 16 bits have been classified since the latest RESET detection.  *)
(***************************************************************************)
C1_WordOnlyAfter16Bits ==
    \A i \in 1..Len(out) :
        out[i].cls \in {AnnWord, AnnCommand} => Len(classified) = 16

C1_Witness ==
    /\ \E i \in 1..Len(out) : out[i].cls = AnnCommand
    /\ Len(classified) = 16

\* The step appends bit at the falling edge p.
C2_Appended(bit, p) ==
    /\ content' = (2 * content) + bit
    /\ num_bits' = num_bits + 1
    /\ CountCls(out', AnnBit) = 1
    /\ Has(out', [ss |-> lastFalling, es |-> p, cls |-> AnnBit,
                  text |-> <<IF bit = 0 THEN "0" ELSE "1">>])

(***************************************************************************)
(* C2: in BITS, a falling edge at p with 3000 < timeLow < 5000 appends the *)
(* bit 0 and one with 6000 < timeLow < 8000 appends the bit 1, where       *)
(* timeLow = (p - lastFalling) * sample_usec; appending makes content      *)
(* 2 * content + bit, adds exactly 1 to num_bits and puts exactly one Bit  *)
(* annotation, spanning [old lastFalling, p) with the text of the bit.     *)
(***************************************************************************)
C2_BitAppended ==
    [][ (FallingStep /\ state = "BITS") =>
          \A timeLow \in {Usec(pos' - lastFalling)} :
              /\ (Over(timeLow, 3000) /\ Under(timeLow, 5000)) => C2_Appended(0, pos')
              /\ (Over(timeLow, 6000) /\ Under(timeLow, 8000)) => C2_Appended(1, pos') ]_vars

C2_Witness ==
    /\ state = "BITS"
    /\ Len(out) = 1
    /\ out[1].text = <<"1">>
    /\ out[1].es = lastFalling
    /\ content % 2 = 1
    /\ num_bits > 1

\* The step ends a high phase of more than 4000 us, begun by the rising edge
\* at pos; the step puts RESET spanning that phase.
C3_HighPhase == FallingStep /\ pos >= 0 /\ seenRising = pos
                /\ Over(Usec(pos' - pos), 4000)

C3_ResetPut == Has(out', [ss |-> pos, es |-> pos', cls |-> AnnBit, text |-> <<"RESET">>])

(***************************************************************************)
(* C3, as claimed: every high phase of the line, from a rising edge at r   *)
(* to the next edge, falling at f, with (f - r) * sample_usec > 4000 makes *)
(* the decoder put a Bit annotation RESET spanning [r, f).                 *)
(***************************************************************************)
C3_EveryLongHighPhaseIsReset == [][ C3_HighPhase => C3_ResetPut ]_vars

(***************************************************************************)
(* C3, amended: every such high phase whose falling edge reaches the       *)
(* decoder in FIND RESET makes it put RESET spanning [r, f); in BITS a     *)
(* long high phase puts no RESET.                                          *)
(***************************************************************************)
C3_LongHighPhaseInFindResetIsReset ==
    [][ C3_HighPhase =>
          /\ state = "FIND RESET" => C3_ResetPut
          /\ state = "BITS" => \A i \in 1..Len(out') : out'[i].text # <<"RESET">> ]_vars

C3_Witness ==
    /\ Len(out) = 1
    /\ out[1].text = <<"RESET">>
    /\ out[1].ss >= 0
    /\ out[1].ss = seenRising
    /\ out[1].es = seenFalling

(***************************************************************************)
(* C4: the step that brings num_bits to 16 puts, right after the 16th Bit  *)
(* annotation, a Word annotation spanning [wordStart, lastFalling) and     *)
(* then a Command annotation spanning [commandStart, lastFalling), and     *)
(* goes to FIND RESET; the value the Word text carries, and the one the    *)
(* command is looked up by, is the 16 bits classified since the RESET      *)
(* detection read most-significant bit first.                              *)
(***************************************************************************)
C4_WordEmitted ==
    [][ (num_bits # 16 /\ num_bits' = 16) =>
          /\ Len(classified') = 16
          /\ Len(out') = 3
          /\ out'[1].cls = AnnBit
          /\ out'[1].text \in {<<"0">>, <<"1">>}
          /\ out'[1].es = lastFalling'
          /\ out'[2].cls = AnnWord
          /\ out'[2].ss = wordStart /\ out'[2].es = lastFalling'
          /\ HexValue(out'[2].text) = MsbFirst(classified')
          /\ out'[3].cls = AnnCommand
          /\ out'[3].ss = commandStart /\ out'[3].es = lastFalling'
          /\ out'[3].text = <<contentToDescription(MsbFirst(classified'))>>
          /\ lastFalling' = pos'
          /\ state' = "FIND RESET" ]_vars

C4_Witness ==
    /\ Len(out) = 3
    /\ out[2].text = <<"0", "x", "1", "0", "0", "0">>
    /\ out[3].text = <<"System ON">>
    /\ state = "FIND RESET"

(***************************************************************************)
(* C5, as claimed: decode() started without a sample period fails with the *)
(* missing-sample-rate error (SamplerateError) before any edge is asked    *)
(* for: nothing is put and no field changes; it never runs without one.    *)
(***************************************************************************)
C5_FailsWithSamplerateError ==
    /\ pc = "running" => sample_usec # NoSampleUsec
    /\ pc = "failed" =>
          /\ err = "SamplerateError"
          /\ sample_usec = NoSampleUsec
          /\ pos = -1
          /\ out = <<>>
          /\ FieldsAsConstructed

(***************************************************************************)
(* C6, as claimed: while lastRising is still the sentinel -1, a falling    *)
(* edge in FIND RESET puts no RESET, sets neither commandStart nor         *)
(* wordStart and leaves the decoder in FIND RESET, wherever it falls.      *)
(***************************************************************************)
C6_NoResetFromSentinel ==
    [][ (FallingStep /\ state = "FIND RESET" /\ lastRising = -1) =>
          /\ Len(out') = 0
          /\ state' = "FIND RESET"
          /\ UNCHANGED <<commandStart, wordStart>> ]_vars

(***************************************************************************)
(* C7, as claimed: in both states lastRising is the sample number of the   *)
(* latest rising edge of the line and lastFalling that of the latest       *)
(* falling edge (-1 when there was none).                                  *)
(***************************************************************************)
C7_LastEdgesOfLine ==
    /\ lastRising = seenRising
    /\ lastFalling = seenFalling

(***************************************************************************)
(* C7, amended: in both states lastFalling is the latest falling edge of   *)
(* the line.  lastRising is the latest rising edge whenever the decoder is *)
(* in FIND RESET and the line is high; in BITS it stays the rising edge    *)
(* the frame's RESET began with (commandStart), whatever rises since.      *)
(***************************************************************************)
C7_LastEdgesSeen ==
    /\ lastFalling = seenFalling
    /\ (state = "FIND RESET" /\ pin = 1) => lastRising = seenRising
    /\ state = "BITS" => lastRising = commandStart

C7_Witness ==
    /\ state = "BITS"
    /\ pin = 1
    /\ seenRising > lastFalling
    /\ lastFalling > lastRising
    /\ lastRising >= 0
    /\ num_bits > 0

(***************************************************************************)
(* C8: always num_bits is in 0..16 and content in 0..65535, indeed         *)
(* content < 2^num_bits; in BITS num_bits is below 16, the step that makes *)
(* it 16 leaving BITS.                                                     *)
(***************************************************************************)
C8_AccumulatorBounded ==
    /\ num_bits \in 0..16
    /\ content \in 0..65535
    /\ content < 2 ^ num_bits
    /\ state = "BITS" => num_bits < 16

C8_Witness ==
    /\ num_bits = 16
    /\ content >= 2 ^ 15
    /\ state = "FIND RESET"
    /\ pin = 1

(***************************************************************************)
(* C9: every annotation put has start_sample <= end_sample.                *)
(***************************************************************************)
C9_SpanOrdered == \A i \in 1..Len(out) : out[i].ss <= out[i].es

C9_Witness ==
    /\ Len(out) = 3
    /\ \A i \in 1..3 : out[i].ss < out[i].es
    /\ out[3].ss < out[2].ss

(***************************************************************************)
(* C11: for every word value in 0..65535 the text of the Word annotation   *)
(* is "0x" followed by exactly 4 lowercase hexadecimal digits, and read    *)
(* back as a hexadecimal number it is the value.                           *)
(***************************************************************************)
C11_WordTextRoundTrip ==
    \A i \in 1..Len(out) :
        (out[i].cls = AnnWord /\ content \in 0..65535) =>
            LET t == out[i].text
            IN  /\ Len(t) = 6
                /\ t[1] = "0"
                /\ t[2] = "x"
                /\ \A k \in 3..6 :
                       t[k] \in {"0", "1", "2", "3", "4", "5", "6", "7",
                                 "8", "9", "a", "b", "c", "d", "e", "f"}
                /\ HexValue(t) = content

C11_Witness ==
    /\ Len(out) = 3
    /\ out[2].cls = AnnWord
    /\ out[2].text = <<"0", "x", "0", "5", "b", "b">>
    /\ content = 1467

(***************************************************************************)
(* C12: the command lookup is total on 0..65535: a mapped code gives a     *)
(* description the table has for it, of the codes written twice the later  *)
(* one (0x8044 "CD Stop", 0x8045 "CD Play/Pause", never "Source: CD" or    *)
(* "CD ON"), 0x1000 gives "System ON", 0x1080 "System OFF", and every      *)
(* unmapped code gives "????".                                             *)
(***************************************************************************)
C12_Mapped(c) == \E k \in 1..Len(CommandTable) : CommandTable[k][1] = c

C12_CommandLookup ==
    \A i \in 1..Len(out) :
        (out[i].cls = AnnCommand /\ content \in 0..65535) =>
            LET d == out[i].text
            IN  /\ Len(d) = 1
                /\ C12_Mapped(content) =>
                       \E k \in 1..Len(CommandTable) : CommandTable[k] = <<content, d[1]>>
                /\ ~C12_Mapped(content) => d[1] = "????"
                /\ d[1] \notin {"Source: CD", "CD ON"}
                /\ content = 32836 => d[1] = "CD Stop"
                /\ content = 32837 => d[1] = "CD Play/Pause"
                /\ content = 4096 => d[1] = "System ON"
                /\ content = 4224 => d[1] = "System OFF"

C12_Witness ==
    /\ Len(out) = 3
    /\ content = 32836
    /\ out[3].cls = AnnCommand
    /\ out[3].text = <<"CD Stop">>

(***************************************************************************)
(* C13: when the stream ends while the decoder reads bits and has fewer    *)
(* than 16 of them, decoding stops with no error, the step puts no         *)
(* annotation (no Word, no Command for the unfinished frame) and no field  *)
(* changes; nothing happens after the end.                                 *)
(***************************************************************************)
C13_CleanEndMidWord ==
    [][ /\ (pc = "running" /\ pc' = "eof" /\ state = "BITS" /\ num_bits < 16)
           => (err' = "" /\ out' = <<>> /\ UNCHANGED fields)
        /\ pc = "eof" => UNCHANGED vars ]_vars

C13_Witness ==
    /\ pc = "eof"
    /\ state = "BITS"
    /\ num_bits \in 1..15
    /\ err = ""

(***************************************************************************)
(* C14: in state BITS a falling edge at p whose time since the falling     *)
(* edge before it is in neither open band (at most 3000, from 5000 to      *)
(* 6000, or at least 8000 microseconds) puts no annotation and leaves      *)
(* content, num_bits, wordStart, commandStart, lastRising and the state as *)
(* they were; lastFalling becomes p.                                       *)
(***************************************************************************)
C14_OutOfBandIgnored ==
    [][ (/\ FallingStep
         /\ state = "BITS"
         /\ \E timeLow \in {Usec(pos' - lastFalling)} :
                \/ ~Over(timeLow, 3000)
                \/ (~Under(timeLow, 5000) /\ ~Over(timeLow, 6000))
                \/ ~Under(timeLow, 8000))
        => (/\ out' = <<>>
            /\ UNCHANGED <<content, num_bits, wordStart, commandStart, lastRising, state>>
            /\ lastFalling' = pos') ]_vars

\* No bit since the RESET, and the latest falling edge exactly 3000
\* microseconds after the one that ended the RESET.
C14_Witness ==
    /\ pc = "running"
    /\ state = "BITS"
    /\ sample_usec = SampleUsecOf(1000)
    /\ num_bits = 0
    /\ out = <<>>
    /\ pin = 0
    /\ lastFalling = wordStart + 3
    /\ pos = lastFalling

(***************************************************************************)
(* C15: in state FIND RESET an edge that is no RESET detection keeps the   *)
(* state and puts no annotation.  A rising edge at p changes lastRising,   *)
(* to p, and no other field; a falling edge whose high phase lasted at     *)
(* most 4000 microseconds leaves content, num_bits, wordStart,             *)
(* commandStart and lastRising as they were.                               *)
(***************************************************************************)
C15_NoResetStaysInFindReset ==
    [][ /\ (RisingStep /\ state = "FIND RESET")
           => (/\ state' = "FIND RESET"
               /\ out' = <<>>
               /\ lastRising' = pos'
               /\ UNCHANGED <<content, lastFalling, commandStart, wordStart, num_bits>>)
        /\ (/\ FallingStep
            /\ state = "FIND RESET"
            /\ ~Over(Usec(pos' - lastRising), 4000))
           => (/\ state' = "FIND RESET"
               /\ out' = <<>>
               /\ UNCHANGED <<content, num_bits, wordStart, commandStart, lastRising>>) ]_vars

\* The latest edge fell exactly 4000 microseconds after the rising edge
\* before it, and nothing was put.
C15_Witness ==
    /\ pc = "running"
    /\ state = "FIND RESET"
    /\ pin = 0
    /\ out = <<>>
    /\ lastRising >= 0
    /\ pos = lastFalling
    /\ Usec(lastFalling - lastRising) = FloatOfInt(4000)

\* The step is a RESET detection: a falling edge in FIND RESET whose high
\* phase, measured from lastRising, lasted more than 4000 microseconds.
ResetDetection ==
    /\ FallingStep
    /\ state = "FIND RESET"
    /\ Over(Usec(pos' - lastRising), 4000)

(***************************************************************************)
(* C16: a RESET detection at the falling edge f sets commandStart to       *)
(* lastRising, wordStart to f, content and num_bits to 0 and the state to  *)
(* BITS.  No other step lowers content or num_bits: the step that          *)
(* completes a word leaves the word's value and the count 16, every edge   *)
(* in FIND RESET that is no RESET detection keeps both, and every step     *)
(* that enters BITS ends with content = 0 and num_bits = 0.                *)
(***************************************************************************)
C16_ClearedOnlyAtReset ==
    [][ /\ ResetDetection
           => (/\ commandStart' = lastRising
               /\ wordStart' = pos'
               /\ content' = 0
               /\ num_bits' = 0
               /\ state' = "BITS")
        /\ (content' < content \/ num_bits' < num_bits)
           => ResetDetection
        /\ (state = "BITS" /\ state' = "FIND RESET")
           => (num_bits' = 16 /\ content' = MsbFirst(classified'))
        /\ (pc = "running" /\ state = "FIND RESET" /\ ~ResetDetection)
           => UNCHANGED <<content, num_bits>>
        /\ (state # "BITS" /\ state' = "BITS")
           => (content' = 0 /\ num_bits' = 0) ]_vars

\* A word other than 0 is complete and the line has risen again: the word
\* and the count 16 are still held.
C16_Witness ==
    /\ pc = "running"
    /\ state = "FIND RESET"
    /\ num_bits = 16
    /\ content = MsbFirst(classified)
    /\ content # 0
    /\ pin = 1
    /\ lastRising > lastFalling

(***************************************************************************)
(* C17: the state is FIND RESET or BITS and changes in two ways only, from *)
(* FIND RESET to BITS exactly at a RESET detection and from BITS to FIND   *)
(* RESET exactly at the step that makes num_bits 16.  A step in BITS that  *)
(* leaves num_bits below 16, whatever the edge, stays in BITS.             *)
(***************************************************************************)
C17_TwoTransitionsOnly ==
    [][ /\ state' \in {"FIND RESET", "BITS"}
        /\ (state = "FIND RESET" /\ pc = "running")
           => (state' = "BITS" <=> ResetDetection)
        /\ (state = "BITS" /\ pc = "running")
           => (state' = "FIND RESET" <=> (num_bits = 15 /\ num_bits' = 16))
        /\ (state = "BITS" /\ pc = "running" /\ num_bits' < 16)
           => state' = "BITS"
        /\ pc # "running" => state' = state ]_vars

\* One bit has been read at 1000 Hz and the latest falling edge, 8 samples
\* after the RESET, closed an interval in neither band: two such intervals
\* have passed and the state is still BITS.
C17_Witness ==
    /\ pc = "running"
    /\ state = "BITS"
    /\ sample_usec = SampleUsecOf(1000)
    /\ num_bits = 1
    /\ classified = <<0>>
    /\ pin = 0
    /\ out = <<>>
    /\ pos = lastFalling
    /\ lastFalling = wordStart + 8

(***************************************************************************)
(* C18: in BITS a rising edge changes no field of the decoder and puts no  *)
(* annotation.  A high phase of more than 4000 microseconds that ends in   *)
(* BITS is no RESET: the step puts no RESET annotation, lowers neither     *)
(* content nor num_bits and leaves wordStart and commandStart; the falling *)
(* edge that ends it is measured from the falling edge before it and       *)
(* appends the bit 0 or 1 when that interval lies in the bit's band.       *)
(***************************************************************************)
C18_RisingEdgesSkippedInBits ==
    [][ /\ (RisingStep /\ state = "BITS")
           => (UNCHANGED fields /\ out' = <<>>)
        /\ (C3_HighPhase /\ state = "BITS")
           => \A timeLow \in {Usec(pos' - lastFalling)} :
              \A zero \in {Over(timeLow, 3000) /\ Under(timeLow, 5000)} :
              \A one \in {Over(timeLow, 6000) /\ Under(timeLow, 8000)} :
                  /\ \A i \in 1..Len(out') : out'[i].text # <<"RESET">>
                  /\ content' >= content
                  /\ num_bits' >= num_bits
                  /\ UNCHANGED <<wordStart, commandStart, lastRising>>
                  /\ lastFalling' = pos'
                  /\ zero => C2_Appended(0, pos')
                  /\ one => C2_Appended(1, pos')
                  /\ (~zero /\ ~one) => out' = <<>> ]_vars

\* At 625 Hz the line was high for 3 samples (4800 microseconds) inside a
\* frame, and the falling edge that ended the phase appended the bit 1.
C18_Witness ==
    /\ pc = "running"
    /\ state = "BITS"
    /\ sample_usec = SampleUsecOf(625)
    /\ pin = 0
    /\ Len(out) = 1
    /\ out[1].text = <<"1">>
    /\ out[1].es = pos
    /\ pos - seenRising = 3

\* One frame of output: RESET, 16 bits, the Word, the Command.
FramePattern == <<"RESET">> \o [i \in 1..16 |-> "bit"] \o <<"Word", "Command">>

\* How many annotations of the kind k have been put.
CountKind(k) == Cardinality({i \in 1..Len(emitted) : emitted[i] = k})

(***************************************************************************)
(* C19: the annotations put so far are, in order, a prefix of repetitions  *)
(* of the pattern RESET, 16 bits with text 0 or 1, Word, Command.  So      *)
(* between steps as many Words as Commands have been put, each Word has    *)
(* its own RESET before it, and no RESET is put while the Word and the     *)
(* Command of the RESET before it are outstanding.                         *)
(***************************************************************************)
C19_OutputFollowsFramePattern ==
    /\ \A i \in 1..Len(emitted) : emitted[i] = FramePattern[((i - 1) % 19) + 1]
    /\ pc # "word" => CountKind("Word") = CountKind("Command")
    /\ CountKind("RESET") - CountKind("Word") \in {0, 1}

\* A whole frame has been put and the RESET of the next one after it.
C19_Witness ==
    /\ Len(emitted) >= 20
    /\ emitted[19] = "Command"
    /\ emitted[20] = "RESET"

\* The end of the Bit-class annotation put before out'[i]: that of the one
\* before it in out' if there is one, else that of the history.
PrevBitEnd(i) ==
    LET before == {j \in 1..(i - 1) : out'[j].cls = AnnBit}
    IN  IF before = {} THEN spans[1]
        ELSE out'[CHOOSE j \in before : \A k \in before : k <= j].es

(***************************************************************************)
(* C20: in state BITS, commandStart < wordStart <= lastFalling.  Every     *)
(* Bit-class annotation (RESET, 0, 1) starts at or after the end of the    *)
(* Bit-class annotation put before it.  When a frame is complete, the      *)
(* span of its Command contains the span of its Word, which contains the   *)
(* spans of all bit annotations put since the frame's RESET, and Word and  *)
(* Command end at the sample at which the 16th bit annotation ends.        *)
(***************************************************************************)
C20_SpansConsistent ==
    [][ /\ (pc' = "running" /\ state' = "BITS")
           => (commandStart' < wordStart' /\ wordStart' <= lastFalling')
        /\ \A i \in 1..Len(out') :
               out'[i].cls = AnnBit => out'[i].ss >= PrevBitEnd(i)
        /\ \A i \in 1..Len(out') :
               out'[i].cls = AnnWord
               => /\ Len(out') = 3 /\ i = 2
                  /\ out'[1].cls = AnnBit /\ out'[3].cls = AnnCommand
                  /\ Len(spans') = 3
                  /\ out'[2].ss <= spans'[2] /\ spans'[3] <= out'[2].es
                  /\ out'[3].ss <= out'[2].ss /\ out'[2].es <= out'[3].es
                  /\ out'[2].es = out'[1].es /\ out'[3].es = out'[1].es
                  /\ spans'[1] = out'[1].es ]_vars

\* A frame is complete whose first bit began after the end of its RESET:
\* the Word's span begins before the span of the bits and ends with it.
C20_Witness ==
    /\ pc = "running"
    /\ state = "FIND RESET"
    /\ Len(out) = 3
    /\ out[2].cls = AnnWord
    /\ Len(spans) = 3
    /\ out[2].ss < spans[2]
    /\ out[2].es = spans[3]
    /\ out[3].ss < out[2].ss
====
